---- MODULE Spec2Model ----
(***************************************************************************)
(* Futures position sizer (src/app.py).                                    *)
(*                                                                         *)
(* The script is a Streamlit page: every widget change reruns the whole    *)
(* script top to bottom, so one action is one widget change followed by    *)
(* the complete recomputation (lines 64-108).                              *)
(*                                                                         *)
(* All quantities of the program are Python floats (IEEE-754 binary64).    *)
(* They are modelled exactly: a float is sign * m * 2^e with m a natural   *)
(* number of at most Precision bits, and every arithmetic operation        *)
(* rounds its exact result to nearest, ties to even, as the hardware does. *)
(* Mantissas do not fit TLC's integers, so naturals are little-endian      *)
(* sequences of limbs.  Exponents are unbounded in the model: the inputs   *)
(* used stay far inside the normal range of binary64 (no overflow, no      *)
(* subnormals).  The sign of a zero is not represented.                    *)
(***************************************************************************)
EXTENDS Integers, Sequences, FiniteSets, TLC

(***************************************************************************)
(* Arbitrary-precision naturals: <<l1, l2, ...>> is l1 + l2*Base + ...     *)
(* with no most-significant zero limb; zero is <<>>.                       *)
(***************************************************************************)
LimbBits == 5 * 3
Base == 2 ^ LimbBits

Pow2(k) == 2 ^ k

MaxOf(S) == CHOOSE x \in S : \A y \in S : y <= x

\* limb i of n, 0 beyond its length
BLimb(n, i) == IF i >= 1 /\ i <= Len(n) THEN n[i] ELSE 0

\* n without its most-significant zero limbs
BNorm(n) ==
    IF Len(n) = 0 THEN <<>>
    ELSE LET nz == {i \in 1..Len(n) : n[i] # 0}
         IN  IF nz = {} THEN <<>> ELSE SubSeq(n, 1, MaxOf(nz))

RECURSIVE BFromNat(_)
BFromNat(k) == IF k = 0 THEN <<>> ELSE <<k % Base>> \o BFromNat(k \div Base)

RECURSIVE BToNat(_)
BToNat(n) == IF n = <<>> THEN 0 ELSE Head(n) + Base * BToNat(Tail(n))

\* a + b.  The carry into limb i is 1 exactly when some lower limb j
\* overflows and every limb between j and i is full.
BAdd(a, b) ==
    IF Len(a) = 0 THEN BNorm(b)
    ELSE IF Len(b) = 0 THEN BNorm(a)
    ELSE
    LET len   == IF Len(a) > Len(b) THEN Len(a) ELSE Len(b)
        s(i)  == BLimb(a, i) + BLimb(b, i)
        c(i)  == IF \E j \in 1..(i - 1) :
                       s(j) >= Base /\ \A k \in (j + 1)..(i - 1) : s(k) = Base - 1
                 THEN 1 ELSE 0
    IN  BNorm([i \in 1..(len + 1) |-> (s(i) + c(i)) % Base])

\* a - b for a >= b.  The borrow from limb i is 1 exactly when some lower
\* limb j is short and every limb between j and i is equal.
BSub(a, b) ==
    IF Len(b) = 0 THEN BNorm(a)
    ELSE
    LET br(i) == IF \E j \in 1..(i - 1) :
                       BLimb(a, j) < BLimb(b, j)
                       /\ \A k \in (j + 1)..(i - 1) : BLimb(a, k) = BLimb(b, k)
                 THEN 1 ELSE 0
    IN  BNorm([i \in 1..Len(a) |-> (a[i] - BLimb(b, i) - br(i)) % Base])

\* -1, 0, 1 as a < b, a = b, a > b
BCmpAt(a, b, i) == IF a[i] < b[i] THEN -1 ELSE 1

BCmp(a, b) ==
    IF Len(a) < Len(b) THEN -1
    ELSE IF Len(a) > Len(b) THEN 1
    ELSE IF \A j \in 1..Len(a) : a[j] = b[j] THEN 0
    ELSE BCmpAt(a, b, MaxOf({j \in 1..Len(a) : a[j] # b[j]}))

\* n * Base
BShiftLimb(n) == IF n = <<>> THEN <<>> ELSE <<0>> \o n

\* a * d for a limb d: the low halves of the limb products plus their high
\* halves one limb up
BMulSmall(a, d) ==
    IF d = 0 \/ Len(a) = 0 THEN <<>>
    ELSE
    BAdd([i \in 1..Len(a) |-> (a[i] * d) % Base],
         [i \in 1..(Len(a) + 1) |-> IF i = 1 THEN 0 ELSE (a[i - 1] * d) \div Base])

RECURSIVE BMul(_, _)
BMul(a, b) ==
    IF a = <<>> \/ b = <<>> THEN <<>>
    ELSE BAdd(BMulSmall(a, Head(b)), BShiftLimb(BMul(a, Tail(b))))

\* the number of bits of a limb
LimbLen(l) == CHOOSE k \in 0..LimbBits : l < 2 ^ k /\ (k = 0 \/ l >= 2 ^ (k - 1))

BitLen(n) == IF n = <<>> THEN 0 ELSE (Len(n) - 1) * LimbBits + LimbLen(n[Len(n)])

BOdd(n) == n # <<>> /\ n[1] % 2 = 1

\* n * 2^k
BShl(n, k) ==
    IF n = <<>> \/ k = 0 THEN n
    ELSE [i \in 1..(k \div LimbBits) |-> 0] \o BMulSmall(n, Pow2(k % LimbBits))

\* floor(n / 2^k)
BShr(n, k) ==
    IF Len(n) = 0 \/ k = 0 THEN n
    ELSE
    LET drop == k \div LimbBits
        sh   == Pow2(k % LimbBits)
        up   == Base \div sh
        t    == IF drop >= Len(n) THEN <<>> ELSE SubSeq(n, drop + 1, Len(n))
    IN  BNorm([i \in 1..Len(t) |->
                 (t[i] \div sh) + (IF i < Len(t) THEN (t[i + 1] % sh) * up ELSE 0)])

\* n mod 2^k
BLow(n, k) == BSub(n, BShl(BShr(n, k), k))

\* Long division by a divisor d whose top limb has its top bit set.
\* r < d * Base.  The quotient of the two top limbs of r by the top limb
\* of d is the digit or exceeds it by at most 2 (Knuth, vol. 2, 4.3.1).
BFits(d, g, r) == BCmp(BMulSmall(d, g), r) <= 0

BDigitFrom(r, d, g) ==
    IF g = 0 \/ BFits(d, g, r) THEN g
    ELSE IF BFits(d, g - 1, r) THEN g - 1
    ELSE g - 2

BDigitCap(g) == IF g > Base - 1 THEN Base - 1 ELSE g

BDigit(r, d) ==
    BDigitFrom(r, d,
        BDigitCap((BLimb(r, Len(d) + 1) * Base + BLimb(r, Len(d))) \div d[Len(d)]))

\* one step: hi.q and hi.r are the quotient and the remainder of the limbs
\* above limb; the digit g of limb is found and the remainder brought down
BDivDigit(d, hi, r2, g) ==
    IF g = 0 THEN [q |-> BShiftLimb(hi.q), r |-> r2]
    ELSE [q |-> <<g>> \o hi.q, r |-> BSub(r2, BMulSmall(d, g))]

BDivBring(d, hi, r2) ==
    IF Len(r2) < Len(d) THEN BDivDigit(d, hi, r2, 0)
    ELSE BDivDigit(d, hi, r2, BDigit(r2, d))

BDivStep(limb, d, hi) ==
    IF hi.r = <<>> /\ limb = 0 THEN [q |-> BShiftLimb(hi.q), r |-> <<>>]
    ELSE BDivBring(d, hi, <<limb>> \o hi.r)

\* quotient and remainder of the limbs i..Len(n) of n; the top Len(d) - 1
\* limbs alone are less than d
RECURSIVE BDivFrom(_, _, _)
BDivFrom(n, d, i) ==
    IF i > Len(n) - Len(d) + 1
    THEN [q |-> <<>>, r |-> BNorm(SubSeq(n, i, Len(n)))]
    ELSE BDivStep(n[i], d, BDivFrom(n, d, i + 1))

BDivNormal(n, d) == BDivFrom(n, d, 1)

\* quotient of n by d # 0, and whether the division is exact: both are
\* unchanged when n and d are multiplied by the same power of two
BDivShift(n, d, sh) == BDivNormal(BShl(n, sh), BShl(d, sh))

BDivMod(n, d) == BDivShift(n, d, LimbBits - LimbLen(d[Len(d)]))

(***************************************************************************)
(* Python floats.  [neg, m, e] is (-1)^neg * m * 2^e in canonical form:    *)
(* m odd, or m = 0 with e = 0 and neg = FALSE.                             *)
(***************************************************************************)
Precision == 53

Zero == [neg |-> FALSE, m |-> <<>>, e |-> 0]

IsZero(x) == x.m = <<>>

\* the number of trailing zero bits of a limb l # 0
LimbZeros(l) == CHOOSE k \in 0..LimbBits : l % 2 ^ (k + 1) = 2 ^ k

CanonShift(neg, m, e, z) == [neg |-> neg, m |-> BShr(m, z), e |-> e + z]

RECURSIVE Canon(_, _, _)
Canon(neg, m, e) ==
    IF m = <<>> THEN Zero
    ELSE IF m[1] = 0 THEN Canon(neg, Tail(m), e + LimbBits)
    ELSE CanonShift(neg, m, e, LimbZeros(m[1]))

\* q, or q + 1 when the discarded part compares as c (-1, 0, 1) with one
\* half: round to nearest, ties to even
NearestEven(q, c) ==
    IF c > 0 \/ (c = 0 /\ BOdd(q)) THEN BAdd(q, <<1>>) ELSE q

\* m / 2^sh rounded to nearest, ties to even
BShrRound(m, sh) ==
    NearestEven(BShr(m, sh), BCmp(BLow(m, sh), BShl(<<1>>, sh - 1)))

RoundBits(neg, m, e, bl) ==
    IF bl <= Precision THEN Canon(neg, m, e)
    ELSE Canon(neg, BShrRound(m, bl - Precision), e + bl - Precision)

\* the float nearest to (-1)^neg * m * 2^e, ties to even
Round(neg, m, e) == RoundBits(neg, m, e, BitLen(m))

\* float(k) for a Python int k
FromInt(k) == Round(k < 0, BFromNat(IF k < 0 THEN -k ELSE k), 0)

\* x * y
FMul(x, y) ==
    IF IsZero(x) \/ IsZero(y) THEN Zero
    ELSE Round(x.neg # y.neg, BMul(x.m, y.m), x.e + y.e)

\* x / y for y # 0: the quotient is computed to Precision + 2 bits or more
\* and a sticky bit, then rounded once
Sticky(qr) == BAdd(BShl(qr.q, 1), IF qr.r = <<>> THEN <<>> ELSE <<1>>)

FDivScaled(x, y, k) ==
    Round(x.neg # y.neg, Sticky(BDivMod(BShl(x.m, k), y.m)), x.e - y.e - k - 1)

Max0(n) == IF n > 0 THEN n ELSE 0

FDiv(x, y) ==
    IF IsZero(x) THEN Zero
    ELSE FDivScaled(x, y, Max0(Precision + 2 + BitLen(y.m) - BitLen(x.m)))

\* comparison of magnitudes: -1, 0, 1
\* tx, ty: the positions of the leading bits
MagCmpTop(x, y, tx, ty) ==
    IF tx < ty THEN -1
    ELSE IF tx > ty THEN 1
    ELSE IF x.e >= y.e THEN BCmp(BShl(x.m, x.e - y.e), y.m)
    ELSE BCmp(x.m, BShl(y.m, y.e - x.e))

MagCmp(x, y) ==
    IF IsZero(x) \/ IsZero(y)
    THEN (IF IsZero(x) /\ IsZero(y) THEN 0 ELSE IF IsZero(x) THEN -1 ELSE 1)
    ELSE MagCmpTop(x, y, BitLen(x.m) + x.e, BitLen(y.m) + y.e)

FCmp(x, y) ==
    IF x.neg /\ ~y.neg THEN -1
    ELSE IF ~x.neg /\ y.neg THEN 1
    ELSE IF x.neg THEN MagCmp(y, x)
    ELSE MagCmp(x, y)

FLe(x, y) == FCmp(x, y) <= 0
FLt(x, y) == FCmp(x, y) < 0
FGt(x, y) == FCmp(x, y) > 0

\* math.floor(x) as a Python int
FloorOf(neg, q) == IF neg THEN -(q + 1) ELSE q

Floor(x) ==
    IF x.e >= 0 THEN (IF x.neg THEN -1 ELSE 1) * BToNat(BShl(x.m, x.e))
    ELSE FloorOf(x.neg, BToNat(BShr(x.m, -x.e)))

\* f"{x:.2f}" for x >= 0: the exact value rounded to hundredths, ties to
\* even, as the number of hundredths
Hundredths(n, e) ==
    IF e >= 0 THEN BToNat(BShl(n, e)) ELSE BToNat(BShrRound(n, -e))

Format2f(x) == Hundredths(BMul(x.m, BFromNat(100)), x.e)

\* the float a number widget yields for the decimal text n/100
Dec(n) == FDiv(FromInt(n), FromInt(100))

\* the exact product x * y, not rounded (for stating properties over the
\* real values the floats denote; comparisons accept such values)
ExactMul(x, y) ==
    [neg |-> x.neg # y.neg /\ x.m # <<>> /\ y.m # <<>>,
     m   |-> BMul(x.m, y.m),
     e   |-> IF x.m = <<>> \/ y.m = <<>> THEN 0 ELSE x.e + y.e]

(***************************************************************************)
(* Constants of the script.                                                *)
(***************************************************************************)
AssetKeys == <<"MES (Micro S&P 500)", "MNQ (Micro Nasdaq 100)", "MGC (Micro Gold)">>

ASSETS ==
    [k \in {AssetKeys[i] : i \in 1..Len(AssetKeys)} |->
        IF k = "MES (Micro S&P 500)" THEN FromInt(5)
        ELSE IF k = "MNQ (Micro Nasdaq 100)" THEN FromInt(2)
        ELSE FromInt(10)]

RISK_WARNING_THRESHOLD == FromInt(2)

RewardMultiples == <<1, 2, 3>>

\* min_value and value of the three number inputs, in hundredths
BalanceMin == Dec(100000)
BalanceDefault == Dec(2500000)
RiskMin == Dec(1000)
RiskDefault == Dec(30000)
StopMin == Dec(25)
StopDefault == Dec(1200)

(***************************************************************************)
(* Values a user enters, as decimal texts in hundredths.  The first        *)
(* NBalance, NRisk and NStop entries of each list are used.                *)
(***************************************************************************)
NBalance == 1
NRisk == 4
NStop == 3

BalanceTexts == <<100000, 1000000, 5000000>>
RiskTexts == <<38740, 29400, 5000, 2000, 1000, 100000>>
StopTexts == <<26, 49, 25, 300, 2000>>

BalanceValues == {BalanceDefault} \cup {Dec(BalanceTexts[i]) : i \in 1..NBalance}
RiskValues == {RiskDefault} \cup {Dec(RiskTexts[i]) : i \in 1..NRisk}
StopValues == {StopDefault} \cup {Dec(StopTexts[i]) : i \in 1..NStop}

\* arguments of direct calls of calculate_position_size: the values above,
\* and zero and negative ones, which no widget yields
ArgTotals == RiskValues \cup {Zero, FromInt(-100), Dec(-5000)}
ArgStops == StopValues \cup {Zero, FromInt(-1), Dec(-25)}
ArgPointValues == {FromInt(5), FromInt(2), FromInt(10), Zero, FromInt(-5)}

(***************************************************************************)
(* calculate_position_size.  The result carries what the call raised, if   *)
(* anything: a float division by zero raises ZeroDivisionError.            *)
(***************************************************************************)
\* lines 30-32, given the value of line 28
num_contracts(total_risk_dollars, risk_per_contract) ==
    IF IsZero(risk_per_contract)
    THEN [contracts |-> 0, risk_per_contract |-> risk_per_contract,
          raised |-> "ZeroDivisionError"]
    ELSE [contracts |-> Floor(FDiv(total_risk_dollars, risk_per_contract)),
          risk_per_contract |-> risk_per_contract,
          raised |-> "none"]

\* faulty variant: the guard of line 25 written with < instead of <=
calculate_position_size_strict(total_risk_dollars, stop_loss_points, point_value) ==
    IF FLt(stop_loss_points, Zero) \/ FLt(point_value, Zero)
    THEN [contracts |-> 0, risk_per_contract |-> Zero, raised |-> "none"]
    ELSE num_contracts(total_risk_dollars, FMul(stop_loss_points, point_value))

calculate_position_size(total_risk_dollars, stop_loss_points, point_value) ==
    IF FLe(stop_loss_points, Zero) \/ FLe(point_value, Zero)
    THEN [contracts |-> 0, risk_per_contract |-> Zero, raised |-> "none"]
    ELSE num_contracts(total_risk_dollars, FMul(stop_loss_points, point_value))

(***************************************************************************)
(* The body of the script after the widgets (lines 64-108).                *)
(***************************************************************************)
\* faulty variant: the test of line 86 written with >= instead of >
SafetyWarning_inclusive(risk_pct, contracts) ==
    IF FLe(RISK_WARNING_THRESHOLD, risk_pct) THEN "error"
    ELSE IF contracts = 0 THEN "warning"
    ELSE "success"

\* which of st.error, st.warning, st.success is called
SafetyWarning(risk_pct, contracts) ==
    IF FGt(risk_pct, RISK_WARNING_THRESHOLD) THEN "error"
    ELSE IF contracts = 0 THEN "warning"
    ELSE "success"

target_points(stop_loss_points, r_multiple) ==
    FMul(stop_loss_points, FromInt(r_multiple))

\* faulty variant: line 101 multiplies by the stop distance, not the target
potential_profit_flat(contracts, stop_loss_points, r_multiple, point_value) ==
    FMul(FMul(FromInt(contracts), stop_loss_points), point_value)

potential_profit(contracts, stop_loss_points, r_multiple, point_value) ==
    FMul(FMul(FromInt(contracts), target_points(stop_loss_points, r_multiple)),
         point_value)

\* one pass of the loop body for the multiple r_multiple
ScenarioRow(contracts, stop_loss_points, r_multiple, point_value) ==
    [RiskReward      |-> "1:" \o ToString(r_multiple),
     TargetPoints    |-> Format2f(target_points(stop_loss_points, r_multiple)),
     PotentialProfit |-> Format2f(potential_profit(contracts, stop_loss_points,
                                                   r_multiple, point_value))]

\* faulty variant: each row is inserted at the head of the list
ScenarioRows_reversed(multiples, contracts, stop_loss_points, point_value) ==
    [i \in 1..Len(multiples) |->
        ScenarioRow(contracts, stop_loss_points,
                    multiples[Len(multiples) + 1 - i], point_value)]

\* the list the loop builds: one row appended per multiple, in order
ScenarioRows(multiples, contracts, stop_loss_points, point_value) ==
    [i \in 1..Len(multiples) |->
        ScenarioRow(contracts, stop_loss_points, multiples[i], point_value)]

\* faulty variant: the test of line 95 written with >= instead of >
Results_always(stop_loss_points, point_value, contracts, risk_per_contract, actual_risk, risk_pct) ==
    [point_value       |-> point_value,
     contracts         |-> contracts,
     risk_per_contract |-> risk_per_contract,
     actual_risk       |-> actual_risk,
     risk_pct          |-> risk_pct,
     alert             |-> SafetyWarning(risk_pct, contracts),
     table             |-> IF contracts >= 0
                           THEN <<ScenarioRows(RewardMultiples, contracts,
                                               stop_loss_points, point_value)>>
                           ELSE <<>>]

\* lines 84-108: the advisory message and the scenario table
Results(stop_loss_points, point_value, contracts, risk_per_contract, actual_risk, risk_pct) ==
    [point_value       |-> point_value,
     contracts         |-> contracts,
     risk_per_contract |-> risk_per_contract,
     actual_risk       |-> actual_risk,
     risk_pct          |-> risk_pct,
     alert             |-> SafetyWarning(risk_pct, contracts),
     table             |-> IF contracts > 0
                           THEN <<ScenarioRows(RewardMultiples, contracts,
                                               stop_loss_points, point_value)>>
                           ELSE <<>>]

\* line 79
RiskPct(actual_risk, account_balance) ==
    FMul(FDiv(actual_risk, account_balance), FromInt(100))

\* lines 79-108, given actual_risk
Metrics(account_balance, stop_loss_points, point_value, contracts, risk_per_contract, actual_risk) ==
    Results(stop_loss_points, point_value, contracts, risk_per_contract,
            actual_risk, RiskPct(actual_risk, account_balance))

\* faulty variant: line 65 takes the risk of one contract as the actual risk
Calculation_unit(account_balance, stop_loss_points, point_value, sized) ==
    Metrics(account_balance, stop_loss_points, point_value, sized.contracts,
            sized.risk_per_contract, sized.risk_per_contract)

\* lines 65-108, given what calculate_position_size returned
Calculation(account_balance, stop_loss_points, point_value, sized) ==
    Metrics(account_balance, stop_loss_points, point_value, sized.contracts,
            sized.risk_per_contract,
            FMul(FromInt(sized.contracts), sized.risk_per_contract))

\* faulty variant: line 64 passes the account balance as the risk budget
Sizing_balance(account_balance, point_value, risk_dollars, stop_loss_points) ==
    Calculation(account_balance, stop_loss_points, point_value,
                calculate_position_size(account_balance, stop_loss_points, point_value))

\* lines 64-108, given the point value of line 54
Sizing(account_balance, point_value, risk_dollars, stop_loss_points) ==
    Calculation(account_balance, stop_loss_points, point_value,
                calculate_position_size(risk_dollars, stop_loss_points, point_value))

\* one run of the script: the value of every global it assigns and what
\* it shows
Script(account_balance, selected_asset_key, risk_dollars, stop_loss_points) ==
    Sizing(account_balance, ASSETS[selected_asset_key], risk_dollars, stop_loss_points)

(***************************************************************************)
(* State: the widget values and the globals of the last run of the script. *)
(* alert is the message function called at lines 86-92; table is <<>> when *)
(* st.table is not called and <<rows>> when it is.  call and ret are the   *)
(* arguments and the result of a direct call of calculate_position_size.   *)
(***************************************************************************)
VARIABLES account_balance, selected_asset_key, risk_dollars, stop_loss_points,
          point_value, contracts, risk_per_contract, actual_risk, risk_pct,
          alert, table, call, ret

widgets == <<account_balance, selected_asset_key, risk_dollars, stop_loss_points>>
globals == <<point_value, contracts, risk_per_contract, actual_risk, risk_pct,
             alert, table>>
vars == <<widgets, globals, call, ret>>

NoCall == [pc |-> "none"]
NoRet == [contracts |-> 0, risk_per_contract |-> Zero, raised |-> "none"]

\* the script has run and left g
Ran(g) ==
    /\ point_value = g.point_value
    /\ contracts = g.contracts
    /\ risk_per_contract = g.risk_per_contract
    /\ actual_risk = g.actual_risk
    /\ risk_pct = g.risk_pct
    /\ alert = g.alert
    /\ table = g.table

\* the script runs again and leaves g
Rerun(g) ==
    /\ point_value' = g.point_value
    /\ contracts' = g.contracts
    /\ risk_per_contract' = g.risk_per_contract
    /\ actual_risk' = g.actual_risk
    /\ risk_pct' = g.risk_pct
    /\ alert' = g.alert
    /\ table' = g.table

\* first run of the script, every widget at its default
FirstRun ==
    /\ account_balance = BalanceDefault
    /\ selected_asset_key = AssetKeys[1]
    /\ risk_dollars = RiskDefault
    /\ stop_loss_points = StopDefault
    /\ \E g \in {Script(BalanceDefault, AssetKeys[1], RiskDefault, StopDefault)} :
          Ran(g)

Init ==
    /\ FirstRun
    /\ call = NoCall
    /\ ret = NoRet

ChangeBalance(v) ==
    /\ v # account_balance
    /\ FLe(BalanceMin, v)
    /\ account_balance' = v
    /\ \E g \in {Script(v, selected_asset_key, risk_dollars, stop_loss_points)} :
          Rerun(g)
    /\ UNCHANGED <<selected_asset_key, risk_dollars, stop_loss_points, call, ret>>

SelectAsset(k) ==
    /\ k # selected_asset_key
    /\ selected_asset_key' = k
    /\ \E g \in {Script(account_balance, k, risk_dollars, stop_loss_points)} :
          Rerun(g)
    /\ UNCHANGED <<account_balance, risk_dollars, stop_loss_points, call, ret>>

ChangeRisk(v) ==
    /\ v # risk_dollars
    /\ FLe(RiskMin, v)
    /\ risk_dollars' = v
    /\ \E g \in {Script(account_balance, selected_asset_key, v, stop_loss_points)} :
          Rerun(g)
    /\ UNCHANGED <<account_balance, selected_asset_key, stop_loss_points, call, ret>>

ChangeStop(v) ==
    /\ v # stop_loss_points
    /\ FLe(StopMin, v)
    /\ stop_loss_points' = v
    /\ \E g \in {Script(account_balance, selected_asset_key, risk_dollars, v)} :
          Rerun(g)
    /\ UNCHANGED <<account_balance, selected_asset_key, risk_dollars, call, ret>>

Next ==
    \/ \E v \in BalanceValues : ChangeBalance(v)
    \/ \E k \in DOMAIN ASSETS : SelectAsset(k)
    \/ \E v \in RiskValues : ChangeRisk(v)
    \/ \E v \in StopValues : ChangeStop(v)

Spec == Init /\ [][Next]_vars

(***************************************************************************)
(* Direct calls of calculate_position_size with arbitrary arguments (the   *)
(* function is a module-level def; the page itself only passes widget      *)
(* values).                                                                *)
(***************************************************************************)
SizerInit ==
    /\ FirstRun
    /\ call \in {[pc |-> "call", total_risk_dollars |-> t, stop_loss_points |-> s,
                  point_value |-> p] :
                    t \in ArgTotals, s \in ArgStops, p \in ArgPointValues}
    /\ ret = NoRet

CallSizer ==
    /\ call.pc = "call"
    /\ ret' = calculate_position_size(call.total_risk_dollars,
                                      call.stop_loss_points, call.point_value)
    /\ call' = [call EXCEPT !.pc = "done"]
    /\ UNCHANGED <<widgets, globals>>

SizerNext == CallSizer

SizerSpec == SizerInit /\ [][SizerNext]_vars

(***************************************************************************)
(* Properties.  A product written with ExactMul is the real number the     *)
(* floats denote, not rounded.                                             *)
(***************************************************************************)
\* what contracts many contracts risk, as a real number
RealRisk(n) == ExactMul(ExactMul(FromInt(n), stop_loss_points), point_value)

\* C1 (no over-risk): after every run of the script, contracts *
\* stop_loss_points * point_value is at most risk_dollars, and actual_risk
\* (line 65) is at most risk_dollars.
NoOverRisk ==
    /\ FLe(RealRisk(contracts), risk_dollars)
    /\ FLe(actual_risk, risk_dollars)

\* C2 (non-negative count): a call of calculate_position_size that returns
\* returns a contract count >= 0, and 0 when total_risk_dollars is negative
\* and both other arguments are positive.
ContractsNonNegative ==
    (call.pc = "done" /\ ret.raised = "none") =>
        /\ ret.contracts >= 0
        /\ (FLt(call.total_risk_dollars, Zero)
            /\ FGt(call.stop_loss_points, Zero)
            /\ FGt(call.point_value, Zero)) => ret.contracts = 0

\* C3 (maximality): after every run of the script, one contract more than
\* contracts would risk more than risk_dollars.
Maximality == FGt(RealRisk(contracts + 1), risk_dollars)

\* C4 (degenerate safety): a call of calculate_position_size with
\* stop_loss_points <= 0 or point_value <= 0 returns (0, 0.0) and raises
\* nothing, whatever total_risk_dollars is.
DegenerateSafety ==
    (call.pc = "done"
     /\ (FLe(call.stop_loss_points, Zero) \/ FLe(call.point_value, Zero))) =>
        ret = [contracts |-> 0, risk_per_contract |-> Zero, raised |-> "none"]

DegenerateCalled ==
    /\ call.pc = "done"
    /\ IsZero(call.stop_loss_points)
    /\ FGt(call.point_value, Zero)
    /\ FGt(call.total_risk_dollars, Zero)
    /\ ret.contracts = 0

\* C5 (classification precedence): the message shown is the error exactly
\* when risk_pct > 2.0, else the warning exactly when contracts = 0, else
\* the success message.
OverThreshold == FGt(risk_pct, FromInt(2))

Profit(r) == potential_profit(contracts, stop_loss_points, r, point_value)

ScenarioOrder ==
    table # <<>> =>
        /\ Len(table[1]) = 3
        /\ \A i \in 1..3 :
              /\ table[1][i].RiskReward = <<"1:1", "1:2", "1:3">>[i]
              /\ table[1][i].TargetPoints
                    = Format2f(FMul(stop_loss_points, FromInt(i)))

ThreeRows ==
    selected_asset_key # AssetKeys[1]
    /\ table # <<>> /\ table[1][1].RiskReward = "1:1"
    /\ table[1][3].RiskReward = "1:3"
    /\ table[1][1].TargetPoints < table[1][3].TargetPoints

\* C8 (the balance does not size): a run of the script that follows a
\* change of account_balance alone leaves contracts, risk_per_contract,
\* actual_risk and the scenario table as they were.
BalanceOnly ==
    /\ account_balance' # account_balance
    /\ selected_asset_key' = selected_asset_key
    /\ risk_dollars' = risk_dollars
    /\ stop_loss_points' = stop_loss_points

BalanceDoesNotSize ==
    [][BalanceOnly =>
        /\ contracts' = contracts
        /\ risk_per_contract' = risk_per_contract
        /\ actual_risk' = actual_risk
        /\ table' = table]_vars

BalanceChanged ==
    /\ account_balance # BalanceDefault
    /\ selected_asset_key = AssetKeys[1]
    /\ risk_dollars = RiskDefault
    /\ stop_loss_points = StopDefault
    /\ contracts = 5
    /\ alert = "error"

\* C9 (scenario suppression): the scenario table is shown exactly when
\* contracts > 0.
ScenarioSuppression == table # <<>> <=> contracts > 0

TableSuppressed == contracts = 0 /\ table = <<>>

====
